---- MODULE Spec2Model ----
(***************************************************************************)
(* Model of releng/executor.py: the Executor / DryRunExecutor backends,    *)
(* the CurrentDirectoryTracker and the CommandRunner.                      *)
(*                                                                         *)
(* Python strings are sequences of one-character strings, so that          *)
(* concatenation, quoting, line splitting and path joining are computed    *)
(* character by character as the library routines compute them.            *)
(***************************************************************************)
EXTENDS Integers, Sequences, FiniteSets, TLC

VARIABLES cwd, system, executor, heap, envRef, fs, console, spawned,
          backendCall, result

vars == <<cwd, system, executor, heap, envRef, fs, console, spawned,
          backendCall, result>>

(***************************************************************************)
(* Bounds of the model.                                                    *)
(***************************************************************************)
\* longest environment value the environment operations are followed to
MaxValLen == 5
\* longest argv list given to call / check_call / check_output
MaxArgs == 2
\* depth of the directory tree below the root
MaxDepth == 2

(***************************************************************************)
(* String helpers (Python str operations).                                 *)
(***************************************************************************)
Letters == {"a","b","c","d","e","f","g","h","i","j","k","l","m",
            "n","o","p","q","r","s","t","u","v","w","x","y","z",
            "A","B","C","D","E","F","G","H","I","J","K","L","M",
            "N","O","P","Q","R","S","T","U","V","W","X","Y","Z"}

Digits == {"0","1","2","3","4","5","6","7","8","9"}

\* characters matched by \w (re without flags)
WordChars == Letters \cup Digits \cup {"_"}

\* characters removed by str.strip()
Whitespace == {" ", "\t", "\n", "\r", "\f"}

\* pipes._safechars
SafeChars == Letters \cup Digits \cup {"@","%","_","-","+","=",":",",",".","/"}

RECURSIVE JoinWith(_, _)
\* sep.join(parts)
JoinWith(sep, parts) ==
    IF parts = <<>> THEN <<>>
    ELSE IF Len(parts) = 1 THEN parts[1]
    ELSE parts[1] \o sep \o JoinWith(sep, Tail(parts))

\* c in s
Contains(s, c) == \E i \in 1..Len(s) : s[i] = c

\* sub occurs in s as a contiguous substring
HasSubstring(s, sub) ==
    \E i \in 0..(Len(s) - Len(sub)) :
        \A j \in 1..Len(sub) : s[i + j] = sub[j]

RECURSIVE Replace(_, _, _)
\* s.replace(c, by) for a one-character c
Replace(s, c, by) ==
    IF s = <<>> THEN <<>>
    ELSE (IF Head(s) = c THEN by ELSE <<Head(s)>>) \o Replace(Tail(s), c, by)

RECURSIVE Repeat(_, _)
\* c * n
Repeat(c, n) == IF n <= 0 THEN <<>> ELSE <<c>> \o Repeat(c, n - 1)

(***************************************************************************)
(* String literals of the program.                                         *)
(***************************************************************************)
Plus == <<"+", " ">>
BinBash == <<"/","b","i","n","/","b","a","s","h">>
DeleteColon == <<"d","e","l","e","t","e",":"," ">>
WriteColon == <<"w","r","i","t","e",":"," ">>
OpenMark == <<" ","<","<","<">>
CloseMark == <<"<","<","<">>
AndAnd == <<" ","&","&"," ">>
DashEEnvironment == <<" ","-","E"," ","e","n","v","i","r","o","n","m","e","n","t">>
Space == <<" ">>
PATH == <<"P","A","T","H">>
FOO == <<"F","O","O">>
BAZ == <<"B","A","Z">>

\* the empty dict
EmptyEnv == [k \in {} |-> <<>>]

\* d[k] = v on a dict
DictSet(d, k, v) ==
    [x \in (DOMAIN d) \cup {k} |-> IF x = k THEN v ELSE d[x]]

(***************************************************************************)
(* os.path helpers.                                                        *)
(***************************************************************************)
\* os.path.isabs (posixpath)
IsAbs(p) == p # <<>> /\ p[1] = "/"

\* os.path.join(a, b) (posixpath)
PathJoin(a, b) ==
    IF IsAbs(b) THEN b
    ELSE IF a = <<>> \/ a[Len(a)] = "/" THEN a \o b
    ELSE a \o <<"/">> \o b

\* _ensure_abs_path(path, cwd)
EnsureAbsPath(path, dir) ==
    IF ~IsAbs(path) THEN PathJoin(dir, path) ELSE path

(***************************************************************************)
(* Rendering of a command for display: CommandRunner._cmd_to_string.       *)
(***************************************************************************)
\* a faulty variant of Quote: tokens are joined as they are
QuoteNothing(x) == x

\* pipes.quote(x)
Quote(x) ==
    IF \A i \in 1..Len(x) : x[i] \in SafeChars
    THEN (IF x = <<>> THEN <<"'", "'">> ELSE x)
    ELSE <<"'">> \o Replace(x, "'", <<"'", "\"", "'", "\"", "'">>) \o <<"'">>

RECURSIVE WinArgBody(_, _, _)
\* the inner loop of subprocess.list2cmdline over the characters of one
\* argument; bs is len(bs_buf)
WinArgBody(arg, i, bs) ==
    IF i > Len(arg) THEN Repeat("\\", bs)
    ELSE IF arg[i] = "\\" THEN WinArgBody(arg, i + 1, bs + 1)
    ELSE IF arg[i] = "\""
         THEN Repeat("\\", 2 * bs) \o <<"\\", "\"">> \o WinArgBody(arg, i + 1, 0)
    ELSE Repeat("\\", bs) \o <<arg[i]>> \o WinArgBody(arg, i + 1, 0)

RECURSIVE TrailingBackslashes(_)
\* len(bs_buf) when the loop over one argument ends
TrailingBackslashes(arg) ==
    IF arg = <<>> \/ arg[Len(arg)] # "\\" THEN 0
    ELSE 1 + TrailingBackslashes(SubSeq(arg, 1, Len(arg) - 1))

\* one argument as subprocess.list2cmdline renders it
WinArg(arg) ==
    LET needquote == Contains(arg, " ") \/ Contains(arg, "\t") \/ arg = <<>>
    IN  IF needquote
        THEN <<"\"">> \o WinArgBody(arg, 1, 0)
                 \o Repeat("\\", TrailingBackslashes(arg)) \o <<"\"">>
        ELSE WinArgBody(arg, 1, 0)

\* subprocess.list2cmdline(seq)
List2Cmdline(seq) == JoinWith(Space, [i \in 1..Len(seq) |-> WinArg(seq[i])])

\* factory.system and factory.system == System.WINDOWS
IsWindows == system = "WINDOWS"

\* CommandRunner._cmd_to_string(cmd, shell)
CmdToString(cmd, shell) ==
    IF shell THEN cmd
    ELSE IF IsWindows THEN List2Cmdline(cmd)
    ELSE JoinWith(Space, [i \in 1..Len(cmd) |-> Quote(cmd[i])])

(***************************************************************************)
(* The file system the Executor acts on: a tree of nodes below the root,   *)
(* each absent, a regular file (with its data) or a directory.             *)
(***************************************************************************)
Names == {<<"d">>, <<"e">>}

\* the nodes below the root, as sequences of path components
Nodes == UNION {[1..k -> Names] : k \in 1..MaxDepth}

Root == <<>>

Absent == [kind |-> "absent", data |-> <<>>]
Dir == [kind |-> "dir", data |-> <<>>]
File(data) == [kind |-> "file", data |-> data]

RECURSIVE SplitPathFrom(_, _)
SplitPathFrom(p, cur) ==
    IF p = <<>> THEN (IF cur = <<>> THEN <<>> ELSE <<cur>>)
    ELSE IF Head(p) = "/"
         THEN (IF cur = <<>> THEN <<>> ELSE <<cur>>) \o SplitPathFrom(Tail(p), <<>>)
    ELSE SplitPathFrom(Tail(p), Append(cur, Head(p)))

\* the node an absolute path names (the components between its slashes)
NodeOf(p) == SplitPathFrom(p, <<>>)

Parent(n) == SubSeq(n, 1, Len(n) - 1)

IsPrefix(n, m) == Len(n) <= Len(m) /\ SubSeq(m, 1, Len(n)) = n

\* os.path.isdir
OsIsDir(f, n) == n = Root \/ f[n].kind = "dir"

\* os.path.exists
OsExists(f, n) == n = Root \/ f[n].kind # "absent"

\* shutil.rmtree(n): n and everything below it
Rmtree(f, n) == [m \in Nodes |-> IF IsPrefix(n, m) THEN Absent ELSE f[m]]

\* os.remove(n)
OsRemove(f, n) == [f EXCEPT ![n] = Absent]

\* os.mkdir(n): fails when n exists or its parent is no directory
OsMkdir(f, n) ==
    IF OsExists(f, n) \/ ~OsIsDir(f, Parent(n))
    THEN [ok |-> FALSE, fs |-> f]
    ELSE [ok |-> TRUE, fs |-> [f EXCEPT ![n] = Dir]]

RECURSIVE OsMakedirs(_, _)
\* os.makedirs(n): creates the missing ancestors, then n itself
OsMakedirs(f, n) ==
    LET head == Parent(n)
        up == IF head # Root /\ ~OsExists(f, head)
              THEN OsMakedirs(f, head)
              ELSE [ok |-> TRUE, fs |-> f]
    IN  IF up.ok THEN OsMkdir(up.fs, n) ELSE up

\* open(n, 'w') and write: fails on a directory or under a missing directory
OsWrite(f, n, contents) ==
    IF n = Root \/ OsIsDir(f, n) \/ ~OsIsDir(f, Parent(n))
    THEN [ok |-> FALSE, fs |-> f]
    ELSE [ok |-> TRUE, fs |-> [f EXCEPT ![n] = File(contents)]]

\* Executor.remove_path(path) on the file system f
RealRemovePath(f, path, dir) ==
    LET n == NodeOf(EnsureAbsPath(path, dir))
    IN  IF OsIsDir(f, n) THEN Rmtree(f, n)
        ELSE IF OsExists(f, n) THEN OsRemove(f, n)
        ELSE f

\* a faulty variant of RealEnsureDirExists: ensure_empty is ignored
RealEnsureDirExistsKeepsContent(f, path, ensure_empty, dir) ==
    LET n == NodeOf(EnsureAbsPath(path, dir))
    IN  IF OsIsDir(f, n) THEN [ok |-> TRUE, fs |-> f] ELSE OsMakedirs(f, n)

\* Executor.ensure_dir_exists(path, ensure_empty) on the file system f
RealEnsureDirExists(f, path, ensure_empty, dir) ==
    LET abs == EnsureAbsPath(path, dir)
        n == NodeOf(abs)
    IN  IF ensure_empty THEN OsMakedirs(RealRemovePath(f, abs, dir), n)
        ELSE IF OsIsDir(f, n) THEN [ok |-> TRUE, fs |-> f]
        ELSE OsMakedirs(f, n)

\* Executor.write_file(path, contents) on the file system f
RealWriteFile(f, path, contents, dir) ==
    OsWrite(f, NodeOf(EnsureAbsPath(path, dir)), contents)

(***************************************************************************)
(* Inputs the operations are called with.                                  *)
(***************************************************************************)
Runners == {1, 2}

\* dict objects: 0 is factory.env, the others are allocated by dict(...)
Refs == {0} \cup Runners

\* exit statuses a spawned process ends with
ExitCodes == {0, 2}

SlashRoot == <<"/">>
SlashA == <<"/","a">>
SlashX == <<"/","x">>
Colon == <<":">>
SlashD == <<"/","d">>
SlashTmp == <<"/","t","m","p">>
TokLs == <<"l","s">>
TokFalse == <<"f","a","l","s","e">>
TokSpace == <<"a"," ","b">>
TokApos == <<"i","t","'","s">>
TokDquote == <<"\\","\""," ","\\">>

\* the tokens argv lists are built from
Tokens == {TokLs, TokSpace, TokApos, TokDquote}

\* argv lists of up to MaxArgs tokens
Argvs(toks) == UNION {[1..k -> toks] : k \in 1..MaxArgs}

\* shell strings
ShellStrings == {TokLs, TokFalse \o AndAnd \o TokLs, TokSpace}

\* an environment mapping a caller passes as env=
CallerEnv == [k \in {FOO} |-> <<"1">>]

\* the keyword arguments of a caller: cwd= and env= given or not
CallerOpts ==
    {[hasCwd |-> hc, cwd |-> IF hc THEN SlashTmp ELSE <<>>,
      hasEnv |-> he, env |-> IF he THEN CallerEnv ELSE EmptyEnv] :
        hc \in BOOLEAN, he \in BOOLEAN}

NoOpts == [hasCwd |-> FALSE, cwd |-> <<>>, hasEnv |-> FALSE, env |-> EmptyEnv]

\* standard output captured from a process
OutExample == FOO \o <<"=","b","a","r","\n">>
                  \o <<"n","o","t","a","l","i","n","e","\n">>
                  \o BAZ \o <<"=","q","u","x","\n">>
OutTrailing == BAZ \o <<"=","q"," ","\t","\n">>
OutEquals == FOO \o <<"=","a","=","b","\r","\n","=","x","\n"," ">> \o FOO
                 \o <<"=","1","\n">> \o PATH \o <<"=","\n">>
OutEmpty == <<>>

Outputs == {OutExample, OutTrailing, OutEquals, OutEmpty}

(***************************************************************************)
(* The record of the last operation: what was called, with what, and how   *)
(* it ended.                                                               *)
(***************************************************************************)
NoResult ==
    [op |-> "none", runner |-> 0, status |-> "ok", code |-> -1, exit |-> -1,
     msg |-> <<>>, out |-> <<>>, none |-> TRUE, path |-> <<>>, value |-> <<>>,
     sep |-> <<>>, flag |-> FALSE, shell |-> FALSE, opts |-> NoOpts,
     argv |-> <<>>, line |-> <<>>]

NoBackendCall ==
    [op |-> "none", shell |-> FALSE, executable |-> <<>>, cwd |-> <<>>,
     env |-> [ref |-> -1, val |-> EmptyEnv]]

(***************************************************************************)
(* The backends: Executor and DryRunExecutor.                              *)
(***************************************************************************)
\* Executor.call / DryRunExecutor.call: the possible outcomes
ExecutorCall(ex) ==
    IF ex = "DryRun"
    THEN {[raised |-> FALSE, code |-> 0, exit |-> -1, spawn |-> FALSE]}
    ELSE {[raised |-> FALSE, code |-> c, exit |-> c, spawn |-> TRUE] : c \in ExitCodes}

\* Executor.check_call / DryRunExecutor.check_call
ExecutorCheckCall(ex) ==
    IF ex = "DryRun"
    THEN {[raised |-> FALSE, exit |-> -1, spawn |-> FALSE]}
    ELSE {[raised |-> c # 0, exit |-> c, spawn |-> TRUE] : c \in ExitCodes}

\* a faulty variant of ExecutorCheckOutput: the dry run runs the command too
ExecutorCheckOutputAlwaysRuns(ex, outs) ==
    {[raised |-> TRUE, exit |-> c, spawn |-> TRUE, none |-> TRUE, out |-> <<>>] :
         c \in ExitCodes \ {0}}
    \cup {[raised |-> FALSE, exit |-> 0, spawn |-> TRUE, none |-> FALSE, out |-> o] :
              o \in outs}

\* Executor.check_output / DryRunExecutor.check_output
ExecutorCheckOutput(ex, outs) ==
    IF ex = "DryRun"
    THEN {[raised |-> FALSE, exit |-> -1, spawn |-> FALSE, none |-> TRUE, out |-> <<>>]}
    ELSE {[raised |-> TRUE, exit |-> c, spawn |-> TRUE, none |-> TRUE, out |-> <<>>] :
              c \in ExitCodes \ {0}}
         \cup {[raised |-> FALSE, exit |-> 0, spawn |-> TRUE, none |-> FALSE, out |-> o] :
                   o \in outs}

\* a faulty variant of ExecutorRemovePath: the dry run deletes as well as logs
ExecutorRemovePathAlwaysRemoves(ex, f, path, dir) ==
    [fs |-> RealRemovePath(f, path, dir), console |-> <<DeleteColon \o path>>]

\* Executor.remove_path / DryRunExecutor.remove_path: file system and console after
ExecutorRemovePath(ex, f, path, dir) ==
    IF ex = "DryRun"
    THEN [fs |-> f, console |-> <<DeleteColon \o path>>]
    ELSE [fs |-> RealRemovePath(f, path, dir), console |-> <<>>]

\* Executor.ensure_dir_exists / DryRunExecutor.ensure_dir_exists
ExecutorEnsureDirExists(ex, f, path, ensure_empty, dir) ==
    IF ex = "DryRun"
    THEN [ok |-> TRUE, fs |-> f]
    ELSE RealEnsureDirExists(f, path, ensure_empty, dir)

\* Executor.write_file / DryRunExecutor.write_file
ExecutorWriteFile(ex, f, path, contents, dir) ==
    IF ex = "DryRun"
    THEN [ok |-> TRUE, fs |-> f,
          console |-> <<WriteColon \o path \o OpenMark, contents \o CloseMark>>]
    ELSE LET w == RealWriteFile(f, path, contents, dir)
         IN  [ok |-> w.ok, fs |-> w.fs, console |-> <<>>]

(***************************************************************************)
(* CurrentDirectoryTracker.                                                *)
(***************************************************************************)
\* a faulty variant of ChdirAccepts: the assertion is missing
ChdirAcceptsAnything(path) == TRUE

\* the assertion of CurrentDirectoryTracker.chdir
ChdirAccepts(path) == IsAbs(path)

\* CurrentDirectoryTracker.chdir(path)
Chdir(path) ==
    /\ IF ChdirAccepts(path)
       THEN /\ cwd' = path
            /\ result' = [NoResult EXCEPT !.op = "chdir", !.path = path]
       ELSE /\ cwd' = cwd
            /\ result' = [NoResult EXCEPT !.op = "chdir", !.path = path,
                                          !.status = "AssertionError"]
    /\ console' = <<>>
    /\ UNCHANGED <<system, executor, heap, envRef, fs, spawned, backendCall>>

(***************************************************************************)
(* CommandRunner: running commands.                                        *)
(***************************************************************************)
\* CommandRunner._shell_call_opts['executable'], <<>> when not set
ShellExecutable ==
    IF system # "NONE" /\ system # "WINDOWS" THEN BinBash ELSE <<>>

\* a faulty variant of KwCwd: the directory the tracker was built with
KwCwdAtConstruction(opts) == IF ~opts.hasCwd THEN SlashRoot ELSE opts.cwd

\* kwargs['cwd'] after _prepare_cmd
KwCwd(opts) == IF ~opts.hasCwd THEN cwd ELSE opts.cwd

\* a dict handed on by reference: ref names a dict object of the heap, and
\* CallerRef the caller's own dict, whose content is val
CallerRef == -1

\* kwargs['env'] after _prepare_cmd: self._env itself, or the caller's dict
KwEnv(r, opts) ==
    IF ~opts.hasEnv THEN [ref |-> envRef[r], val |-> EmptyEnv]
    ELSE [ref |-> CallerRef, val |-> opts.env]

\* the content of a dict handed on by reference
Deref(e) == IF e.ref = CallerRef THEN e.val ELSE heap[e.ref]

\* CommandRunner._prepare_cmd(cmd, kwargs)
PrepareCmd(r, cmd, shell, opts) ==
    LET cmd_string == CmdToString(cmd, shell)
    IN  [cmd_string |-> cmd_string,
         console |-> <<Plus \o cmd_string>>,
         kwargs |-> [shell |-> shell,
                     executable |-> IF shell THEN ShellExecutable ELSE <<>>,
                     cwd |-> KwCwd(opts),
                     env |-> KwEnv(r, opts)]]

\* the kwargs the backend is handed, with the operation that handed them
Handed(op, kwargs) ==
    [op |-> op, shell |-> kwargs.shell, executable |-> kwargs.executable,
     cwd |-> kwargs.cwd, env |-> kwargs.env]

\* a faulty variant of ErrorMessage: the console line with its prefix
ErrorMessageFromConsoleLine(cmd_string) == Plus \o cmd_string

\* the message of the CommandError a failed command is reported with
ErrorMessage(cmd_string) == cmd_string

\* the record of a command run through runner r, before its outcome is known
Ran(op, r, cmd, shell, opts) ==
    [NoResult EXCEPT !.op = op, !.runner = r, !.shell = shell, !.opts = opts,
                     !.argv = IF shell THEN <<>> ELSE cmd,
                     !.line = IF shell THEN cmd ELSE <<>>]

\* CommandRunner.call(cmd, **kwargs)
Call(r, cmd, shell, opts) ==
    LET p == PrepareCmd(r, cmd, shell, opts)
    IN  \E o \in ExecutorCall(executor) :
            /\ console' = p.console
            /\ backendCall' = Handed("call", p.kwargs)
            /\ spawned' = (spawned \/ o.spawn)
            /\ result' =
                 IF o.raised
                 THEN [Ran("call", r, cmd, shell, opts) EXCEPT !.exit = o.exit, !.status = "CommandError",
                           !.msg = ErrorMessage(p.cmd_string)]
                 ELSE [Ran("call", r, cmd, shell, opts) EXCEPT !.exit = o.exit, !.code = o.code,
                           !.none = FALSE]
            /\ UNCHANGED <<cwd, system, executor, heap, envRef, fs>>

\* CommandRunner.check_call(cmd, **kwargs)
CheckCall(r, cmd, shell, opts) ==
    LET p == PrepareCmd(r, cmd, shell, opts)
    IN  \E o \in ExecutorCheckCall(executor) :
            /\ console' = p.console
            /\ backendCall' = Handed("check_call", p.kwargs)
            /\ spawned' = (spawned \/ o.spawn)
            /\ result' =
                 IF o.raised
                 THEN [Ran("check_call", r, cmd, shell, opts) EXCEPT !.exit = o.exit,
                           !.status = "CommandError",
                           !.msg = ErrorMessage(p.cmd_string)]
                 ELSE [Ran("check_call", r, cmd, shell, opts) EXCEPT !.exit = o.exit]
            /\ UNCHANGED <<cwd, system, executor, heap, envRef, fs>>

\* CommandRunner.check_output(cmd, **kwargs)
CheckOutput(r, cmd, shell, opts, outs) ==
    LET p == PrepareCmd(r, cmd, shell, opts)
    IN  \E o \in ExecutorCheckOutput(executor, outs) :
            /\ console' = p.console
            /\ backendCall' = Handed("check_output", p.kwargs)
            /\ spawned' = (spawned \/ o.spawn)
            /\ result' =
                 IF o.raised
                 THEN [Ran("check_output", r, cmd, shell, opts) EXCEPT !.exit = o.exit,
                           !.status = "CommandError",
                           !.msg = ErrorMessage(p.cmd_string)]
                 ELSE [Ran("check_output", r, cmd, shell, opts) EXCEPT !.exit = o.exit,
                           !.none = o.none, !.out = o.out]
            /\ UNCHANGED <<cwd, system, executor, heap, envRef, fs>>

(***************************************************************************)
(* File operations of the backend.                                         *)
(***************************************************************************)
\* the paths the file operations are called with, absolute and relative
FsPaths == {SlashD, <<"/","d","/","e">>, <<"/","e">>, <<"e">>, <<"d","/","e">>}

Contents == {<<"x">>}

\* the path names a node of the modelled tree
InTree(path) == NodeOf(EnsureAbsPath(path, cwd)) \in Nodes

\* executor.remove_path(path)
RemovePath(path) ==
    /\ InTree(path)
    /\ LET o == ExecutorRemovePath(executor, fs, path, cwd)
       IN  /\ fs' = o.fs
           /\ console' = o.console
    /\ result' = [NoResult EXCEPT !.op = "remove_path", !.path = path]
    /\ UNCHANGED <<cwd, system, executor, heap, envRef, spawned, backendCall>>

\* executor.ensure_dir_exists(path, ensure_empty)
EnsureDirExists(path, ensure_empty) ==
    /\ InTree(path)
    /\ LET o == ExecutorEnsureDirExists(executor, fs, path, ensure_empty, cwd)
       IN  /\ fs' = o.fs
           /\ result' = [NoResult EXCEPT !.op = "ensure_dir_exists", !.path = path,
                             !.flag = ensure_empty,
                             !.status = IF o.ok THEN "ok" ELSE "OSError"]
    /\ console' = <<>>
    /\ UNCHANGED <<cwd, system, executor, heap, envRef, spawned, backendCall>>

\* executor.write_file(path, contents)
WriteFile(path, contents) ==
    /\ InTree(path)
    /\ LET o == ExecutorWriteFile(executor, fs, path, contents, cwd)
       IN  /\ fs' = o.fs
           /\ console' = o.console
           /\ result' = [NoResult EXCEPT !.op = "write_file", !.path = path,
                             !.value = contents,
                             !.status = IF o.ok THEN "ok" ELSE "IOError"]
    /\ UNCHANGED <<cwd, system, executor, heap, envRef, spawned, backendCall>>

(***************************************************************************)
(* CommandRunner: the environment mapping.                                 *)
(***************************************************************************)
\* a faulty variant of NewEnvRef: self._env = factory.env, no copy
SharedEnvRef(r) == 0

\* the dict object dict(factory.env) gives runner r in CommandRunner.__init__
NewEnvRef(r) == r

\* variable in self._env and self._env[variable]
HasValue(env, variable) == variable \in DOMAIN env /\ env[variable] # <<>>

\* the mapping after set_env_var(variable, value); isNone: value is None
SetVar(env, variable, value, isNone) ==
    IF ~isNone THEN DictSet(env, variable, value) ELSE env

\* a faulty variant of AppendVar: an empty value is joined too
AppendVarWhenPresent(env, variable, value, sep) ==
    IF variable \in DOMAIN env
    THEN DictSet(env, variable, env[variable] \o sep \o value)
    ELSE DictSet(env, variable, value)

\* the mapping after append_to_env_var(variable, value, sep)
AppendVar(env, variable, value, sep) ==
    IF HasValue(env, variable)
    THEN DictSet(env, variable, env[variable] \o sep \o value)
    ELSE DictSet(env, variable, value)

\* the mapping after prepend_to_env_var(variable, value, sep)
PrependVar(env, variable, value, sep) ==
    IF HasValue(env, variable)
    THEN DictSet(env, variable, JoinWith(sep, <<value, env[variable]>>))
    ELSE DictSet(env, variable, value)

RECURSIVE SplitLinesFrom(_, _)
SplitLinesFrom(s, cur) ==
    IF s = <<>> THEN (IF cur = <<>> THEN <<>> ELSE <<cur>>)
    ELSE IF Head(s) = "\r" /\ Len(s) >= 2 /\ s[2] = "\n"
         THEN <<cur>> \o SplitLinesFrom(Tail(Tail(s)), <<>>)
    ELSE IF Head(s) \in {"\n", "\r"}
         THEN <<cur>> \o SplitLinesFrom(Tail(s), <<>>)
    ELSE SplitLinesFrom(Tail(s), Append(cur, Head(s)))

\* str.splitlines()
SplitLines(s) == SplitLinesFrom(s, <<>>)

\* the length of the longest prefix of word characters
RECURSIVE WordPrefixLen(_)
WordPrefixLen(s) ==
    IF s = <<>> \/ Head(s) \notin WordChars THEN 0 ELSE 1 + WordPrefixLen(Tail(s))

\* re.match(r'\w+=', line)
MatchesAssignment(line) ==
    LET k == WordPrefixLen(line)
    IN  k >= 1 /\ Len(line) > k /\ line[k + 1] = "="

RECURSIVE LStrip(_)
LStrip(s) == IF s # <<>> /\ Head(s) \in Whitespace THEN LStrip(Tail(s)) ELSE s

RECURSIVE RStrip(_)
RStrip(s) ==
    IF s # <<>> /\ s[Len(s)] \in Whitespace THEN RStrip(SubSeq(s, 1, Len(s) - 1)) ELSE s

\* str.strip()
Strip(s) == RStrip(LStrip(s))

\* the index of the first '=' of s (s has one)
FirstEq(s) == CHOOSE i \in 1..Len(s) : s[i] = "=" /\ \A j \in 1..(i - 1) : s[j] # "="

\* a faulty variant of SplitAssignment: the line is split at its last '='
SplitAssignmentAtLastEquals(line) ==
    LET t == Strip(line)
        i == CHOOSE i \in 1..Len(t) : t[i] = "=" /\ \A j \in (i + 1)..Len(t) : t[j] # "="
    IN  [variable |-> SubSeq(t, 1, i - 1), value |-> SubSeq(t, i + 1, Len(t))]

\* line.strip().split('=', 1)
SplitAssignment(line) ==
    LET t == Strip(line)
        i == FirstEq(t)
    IN  [variable |-> SubSeq(t, 1, i - 1), value |-> SubSeq(t, i + 1, Len(t))]

RECURSIVE ImportLines(_, _, _)
\* the loop of import_env over the lines: the mapping and the console after
ImportLines(env, printed, lines) ==
    IF lines = <<>> THEN [env |-> env, console |-> printed]
    ELSE IF MatchesAssignment(Head(lines))
         THEN LET a == SplitAssignment(Head(lines))
              IN  ImportLines(DictSet(env, a.variable, a.value), printed, Tail(lines))
    ELSE ImportLines(env, Append(printed, Head(lines)), Tail(lines))

\* the body of import_env after check_output returned new_env (none: None)
ImportOutput(env, none, new_env) ==
    IF ~none /\ new_env # <<>>
    THEN ImportLines(env, <<>>, SplitLines(new_env))
    ELSE [env |-> env, console |-> <<>>]

\* the longest value of the mapping
FitsBound(env) == \A k \in DOMAIN env : Len(env[k]) <= MaxValLen

\* CommandRunner.set_env_var(variable, value)
SetEnvVar(r, variable, value, isNone) ==
    /\ heap' = [heap EXCEPT ![envRef[r]] = SetVar(@, variable, value, isNone)]
    /\ result' = [NoResult EXCEPT !.op = "set_env_var", !.runner = r,
                      !.path = variable, !.value = value, !.flag = isNone]
    /\ console' = <<>>
    /\ UNCHANGED <<cwd, system, executor, envRef, fs, spawned, backendCall>>

\* the default of the sep parameter
DefaultSep == Space

\* the separator in effect: the one given, or the default
SepOf(given, sep) == IF given THEN sep ELSE DefaultSep

\* CommandRunner.append_to_env_var(variable, value, sep)
AppendToEnvVar(r, variable, value, given, sep) ==
    /\ FitsBound(AppendVar(heap[envRef[r]], variable, value, SepOf(given, sep)))
    /\ heap' = [heap EXCEPT ![envRef[r]] = AppendVar(@, variable, value, SepOf(given, sep))]
    /\ result' = [NoResult EXCEPT !.op = "append_to_env_var", !.runner = r,
                      !.path = variable, !.value = value, !.flag = given,
                      !.sep = IF given THEN sep ELSE <<>>]
    /\ console' = <<>>
    /\ UNCHANGED <<cwd, system, executor, envRef, fs, spawned, backendCall>>

\* CommandRunner.prepend_to_env_var(variable, value, sep)
PrependToEnvVar(r, variable, value, given, sep) ==
    /\ FitsBound(PrependVar(heap[envRef[r]], variable, value, SepOf(given, sep)))
    /\ heap' = [heap EXCEPT ![envRef[r]] = PrependVar(@, variable, value, SepOf(given, sep))]
    /\ result' = [NoResult EXCEPT !.op = "prepend_to_env_var", !.runner = r,
                      !.path = variable, !.value = value, !.flag = given,
                      !.sep = IF given THEN sep ELSE <<>>]
    /\ console' = <<>>
    /\ UNCHANGED <<cwd, system, executor, envRef, fs, spawned, backendCall>>

\* the command import_env runs
ImportCommand(env_cmd, cmake_command) ==
    env_cmd \o AndAnd \o cmake_command \o DashEEnvironment

\* CommandRunner.import_env(env_cmd, cmake_command)
ImportEnv(r, env_cmd, cmake_command, outs) ==
    LET cmd == ImportCommand(env_cmd, cmake_command)
        p == PrepareCmd(r, cmd, TRUE, NoOpts)
    IN  \E o \in ExecutorCheckOutput(executor, outs) :
            LET i == ImportOutput(heap[envRef[r]], o.none, o.out)
            IN  /\ backendCall' = Handed("check_output", p.kwargs)
                /\ spawned' = (spawned \/ o.spawn)
                /\ IF o.raised
                   THEN /\ heap' = heap
                        /\ console' = p.console
                        /\ result' = [Ran("import_env", r, cmd, TRUE, NoOpts) EXCEPT
                                          !.exit = o.exit, !.status = "CommandError",
                                          !.msg = ErrorMessage(p.cmd_string)]
                   ELSE /\ heap' = [heap EXCEPT ![envRef[r]] = i.env]
                        /\ console' = p.console \o i.console
                        /\ result' = [Ran("import_env", r, cmd, TRUE, NoOpts) EXCEPT
                                          !.exit = o.exit, !.none = o.none,
                                          !.out = o.out]
                /\ UNCHANGED <<cwd, system, executor, envRef, fs>>

(***************************************************************************)
(* Initial states: the factory has built the tracker, the backend and the  *)
(* runners.                                                                *)
(***************************************************************************)
\* os.getcwd() when the tracker is built
InitialDirs == {SlashRoot, SlashD}

\* factory.env
Snapshots == {EmptyEnv, [k \in {PATH, FOO} |-> IF k = PATH THEN SlashA ELSE <<>>]}

EmptyTree == [n \in Nodes |-> Absent]

\* /d is a directory holding the directory /d/e and the file /d/d; /e is a file
SampleTree ==
    [n \in Nodes |->
        IF n = <<<<"d">>>> \/ n = <<<<"d">>, <<"e">>>> THEN Dir
        ELSE IF n = <<<<"e">>>> \/ n = <<<<"d">>, <<"d">>>> THEN File(<<>>)
        ELSE Absent]

InitWith(dirs, systems, executors, snapshots, trees) ==
    /\ cwd \in dirs
    /\ system \in systems
    /\ executor \in executors
    /\ \E snap \in snapshots : heap = [ref \in Refs |-> snap]
    /\ envRef = [r \in Runners |-> NewEnvRef(r)]
    /\ fs \in trees
    /\ console = <<>>
    /\ spawned = FALSE
    /\ backendCall = NoBackendCall
    /\ result = NoResult

Systems == {"NONE", "WINDOWS", "LINUX"}
Executors == {"Real", "DryRun"}

(***************************************************************************)
(* Spec: commands and directory changes through two runners that share    *)
(* the tracker.                                                            *)
(***************************************************************************)
Init ==
    InitWith({SlashRoot}, {"LINUX"}, Executors, Snapshots \ {EmptyEnv}, {EmptyTree})

ChdirPaths == {SlashD, SlashTmp, <<"d">>}

FewArgvs == {<<TokLs, TokSpace>>}
FewStrings == {TokFalse \o AndAnd \o TokLs}

\* one of the three ways of running a command
Run(op, r, cmd, shell, opts, outs) ==
    \/ op = "call" /\ Call(r, cmd, shell, opts)
    \/ op = "check_call" /\ CheckCall(r, cmd, shell, opts)
    \/ op = "check_output" /\ CheckOutput(r, cmd, shell, opts, outs)

RunOps == {"call", "check_call", "check_output"}

Next ==
    \/ \E p \in ChdirPaths : Chdir(p)
    \/ \E r \in Runners : SetEnvVar(r, PATH, SlashX, FALSE)
    \/ \E op \in RunOps, r \in Runners, a \in FewArgvs, o \in CallerOpts :
           Run(op, r, a, FALSE, o, {OutExample})
    \/ \E op \in RunOps, r \in Runners, c \in FewStrings, o \in CallerOpts :
           Run(op, r, c, TRUE, o, {OutExample})

Spec == Init /\ [][Next]_vars

(***************************************************************************)
(* SpecQuote: one runner runs commands of every shape on each platform.    *)
(***************************************************************************)
InitQuote ==
    InitWith({SlashRoot}, {"WINDOWS", "LINUX"}, {"Real"}, {EmptyEnv}, {EmptyTree})

NextQuote ==
    \/ \E op \in RunOps, a \in Argvs(Tokens) : Run(op, 1, a, FALSE, NoOpts, {OutEmpty})
    \/ \E op \in RunOps, c \in ShellStrings : Run(op, 1, c, TRUE, NoOpts, {OutEmpty})

SpecQuote == InitQuote /\ [][NextQuote]_vars

(***************************************************************************)
(* SpecFS: the file operations of either backend, with directory changes.  *)
(***************************************************************************)
InitFS == InitWith(InitialDirs, {"LINUX"}, Executors, {EmptyEnv}, {EmptyTree, SampleTree})

NextFS ==
    \/ \E p \in {SlashRoot, SlashD, <<"e">>} : Chdir(p)
    \/ \E p \in FsPaths : RemovePath(p)
    \/ \E p \in FsPaths, e \in BOOLEAN : EnsureDirExists(p, e)
    \/ \E p \in FsPaths, c \in Contents : WriteFile(p, c)
    \/ \E op \in RunOps : Run(op, 1, <<TokFalse>>, FALSE, NoOpts, {OutEmpty})

SpecFS == InitFS /\ [][NextFS]_vars

(***************************************************************************)
(* SpecEnv: one runner composes its environment.                           *)
(***************************************************************************)
InitEnv == InitWith({SlashRoot}, Systems, Executors, Snapshots, {EmptyTree})

EnvNames == {PATH, FOO}

NextEnv ==
    \/ \E v \in EnvNames, n \in BOOLEAN :
           SetEnvVar(1, v, IF n THEN <<>> ELSE SlashA, n)
    \/ \E given \in BOOLEAN : AppendToEnvVar(1, PATH, SlashX, given, Colon)
    \/ AppendToEnvVar(1, FOO, SlashX, FALSE, Space)
    \/ \E given \in BOOLEAN : PrependToEnvVar(1, PATH, SlashX, given, Colon)
    \/ ImportEnv(1, TokLs, TokLs, Outputs)

SpecEnv == InitEnv /\ [][NextEnv]_vars

(***************************************************************************)
(* SpecAlias: two runners built from one snapshot compose their            *)
(* environments in any order.                                              *)
(***************************************************************************)
InitAlias == InitWith({SlashRoot}, {"LINUX"}, Executors, Snapshots, {EmptyTree})

NextAlias ==
    \/ \E r \in Runners, n \in BOOLEAN :
           SetEnvVar(r, PATH, IF n THEN <<>> ELSE SlashA, n)
    \/ \E r \in Runners : AppendToEnvVar(r, PATH, SlashX, FALSE, Space)
    \/ \E r \in Runners : PrependToEnvVar(r, FOO, SlashX, FALSE, Space)
    \/ \E r \in Runners : ImportEnv(r, TokLs, TokLs, {OutExample})

SpecAlias == InitAlias /\ [][NextAlias]_vars

(***************************************************************************)
(* Properties.                                                             *)
(***************************************************************************)
\* a path that starts at the root
AbsolutePath(p) == Len(p) >= 1 /\ Head(p) = "/"

\* C1: when the backend reports a nonzero exit, check_call raises
\* CommandError whose message is exactly what was written to the console
\* after the "+ " prefix for that call, and call returns that exit code
\* without raising.
C1_CheckCallRaisesLoggedString ==
    /\ (result.op = "check_call" /\ result.exit > 0) =>
           /\ result.status = "CommandError"
           /\ console = <<Plus \o result.msg>>
    /\ (result.op = "call" /\ result.exit > 0) =>
           /\ result.status = "ok"
           /\ result.code = result.exit

C1_Witness ==
    /\ result.op = "check_call"
    /\ result.exit = 2
    /\ result.status = "CommandError"
    /\ result.msg = TokLs \o <<" ", "'">> \o TokSpace \o <<"'">>

\* C3: the tracker's path is absolute in every state; chdir to an absolute
\* path makes it the stored path, and chdir to a relative path fails and
\* leaves the stored path as it was.
C3_TrackerPathAbsolute ==
    /\ [](/\ AbsolutePath(cwd)
          /\ result.op = "chdir" =>
                 IF AbsolutePath(result.path)
                 THEN result.status = "ok" /\ cwd = result.path
                 ELSE result.status = "AssertionError")
    /\ [][(result'.op = "chdir" /\ ~AbsolutePath(result'.path)) => cwd' = cwd]_vars

C3_Witness ==
    /\ result.op = "chdir"
    /\ result.path = <<"d">>
    /\ result.status = "AssertionError"
    /\ cwd = SlashTmp

\* C4: a command run without cwd= is handed the tracker's path, which is
\* the path of the most recent successful chdir whichever runner runs it;
\* one run without env= is handed the runner's own mapping; a cwd= or env=
\* of the caller is handed on as given.
C4_DefaultsFromTrackerAndOwnedEnv ==
    /\ [](result.op \in RunOps =>
              /\ backendCall.op = result.op
              /\ backendCall.cwd =
                     (IF result.opts.hasCwd THEN result.opts.cwd ELSE cwd)
              /\ Deref(backendCall.env) =
                     (IF result.opts.hasEnv THEN result.opts.env
                      ELSE heap[envRef[result.runner]])
              /\ backendCall.env.ref =
                     (IF result.opts.hasEnv THEN CallerRef ELSE envRef[result.runner]))
    /\ [][IF result'.op = "chdir" /\ result'.status = "ok"
          THEN cwd' = result'.path
          ELSE cwd' = cwd]_vars

C4_Witness ==
    /\ result.op = "check_output"
    /\ result.runner = 1
    /\ ~result.opts.hasCwd /\ ~result.opts.hasEnv
    /\ backendCall.cwd = SlashTmp
    /\ Deref(backendCall.env)[PATH] = SlashA
    /\ heap[envRef[2]][PATH] = SlashX

(***************************************************************************)
(* Reading a display string back, as the shell of the platform splits a    *)
(* command line into words: the yardstick the quoting is measured with.    *)
(***************************************************************************)
Emit(raw, cur, started) ==
    IF started THEN <<[raw |-> raw, word |-> cur]>> ELSE <<>>

RECURSIVE PosixScan(_, _, _, _, _, _)
\* the words of s from position i on under POSIX shell quoting; q is the
\* quote that is open, raw the text of the current word as written and cur
\* its value
PosixScan(s, i, raw, cur, started, q) ==
    IF i > Len(s) THEN Emit(raw, cur, started)
    ELSE LET c == s[i] IN
         IF q = "'"
         THEN IF c = "'"
              THEN PosixScan(s, i + 1, Append(raw, c), cur, TRUE, "")
              ELSE PosixScan(s, i + 1, Append(raw, c), Append(cur, c), TRUE, q)
         ELSE IF q = "\""
         THEN IF c = "\""
              THEN PosixScan(s, i + 1, Append(raw, c), cur, TRUE, "")
              ELSE IF c = "\\" /\ i < Len(s) /\ s[i + 1] \in {"\"", "\\"}
              THEN PosixScan(s, i + 2, raw \o <<c, s[i + 1]>>, Append(cur, s[i + 1]),
                             TRUE, q)
              ELSE PosixScan(s, i + 1, Append(raw, c), Append(cur, c), TRUE, q)
         ELSE IF c \in {" ", "\t"}
              THEN Emit(raw, cur, started) \o PosixScan(s, i + 1, <<>>, <<>>, FALSE, "")
              ELSE IF c \in {"'", "\""}
              THEN PosixScan(s, i + 1, Append(raw, c), cur, TRUE, c)
              ELSE IF c = "\\" /\ i < Len(s)
              THEN PosixScan(s, i + 2, raw \o <<c, s[i + 1]>>, Append(cur, s[i + 1]),
                             TRUE, "")
              ELSE PosixScan(s, i + 1, Append(raw, c), Append(cur, c), TRUE, "")

PosixWords(s) == PosixScan(s, 1, <<>>, <<>>, FALSE, "")

RECURSIVE PosixMetaFrom(_, _, _)
\* s has, from position i on, a character outside the safe set that no
\* quote or backslash protects, or a quote left open
PosixMetaFrom(s, i, q) ==
    IF i > Len(s) THEN q # ""
    ELSE LET c == s[i] IN
         IF q = "'" THEN PosixMetaFrom(s, i + 1, IF c = "'" THEN "" ELSE q)
         ELSE IF q = "\""
         THEN IF c = "\\" /\ i < Len(s) THEN PosixMetaFrom(s, i + 2, q)
              ELSE PosixMetaFrom(s, i + 1, IF c = "\"" THEN "" ELSE q)
         ELSE IF c \in {"'", "\""} THEN PosixMetaFrom(s, i + 1, c)
              ELSE IF c = "\\" /\ i < Len(s) THEN PosixMetaFrom(s, i + 2, "")
              ELSE IF c \in SafeChars \cup {" ", "\t"} THEN PosixMetaFrom(s, i + 1, "")
              ELSE TRUE

PosixUnquotedMeta(s) == PosixMetaFrom(s, 1, "")

RECURSIVE BackslashRun(_, _)
\* the number of backslashes of s in a row from position i
BackslashRun(s, i) ==
    IF i > Len(s) \/ s[i] # "\\" THEN 0 ELSE 1 + BackslashRun(s, i + 1)

RECURSIVE WinScan(_, _, _, _, _, _)
\* the words of s from position i on under the argument rules of the
\* Microsoft C runtime: 2n backslashes before a quote give n backslashes and
\* a delimiter, 2n+1 give n backslashes and a literal quote
WinScan(s, i, raw, cur, started, inq) ==
    IF i > Len(s) THEN Emit(raw, cur, started)
    ELSE LET c == s[i]
             n == BackslashRun(s, i)
             j == i + n
         IN  IF c = "\\"
             THEN IF j <= Len(s) /\ s[j] = "\""
                  THEN IF n % 2 = 0
                       THEN WinScan(s, j + 1, raw \o Repeat("\\", n) \o <<"\"">>,
                                    cur \o Repeat("\\", n \div 2), TRUE, ~inq)
                       ELSE WinScan(s, j + 1, raw \o Repeat("\\", n) \o <<"\"">>,
                                    cur \o Repeat("\\", n \div 2) \o <<"\"">>, TRUE, inq)
                  ELSE WinScan(s, j, raw \o Repeat("\\", n), cur \o Repeat("\\", n),
                               TRUE, inq)
             ELSE IF c = "\""
             THEN WinScan(s, i + 1, Append(raw, c), cur, TRUE, ~inq)
             ELSE IF c \in {" ", "\t"} /\ ~inq
             THEN Emit(raw, cur, started) \o WinScan(s, i + 1, <<>>, <<>>, FALSE, FALSE)
             ELSE WinScan(s, i + 1, Append(raw, c), Append(cur, c), TRUE, inq)

WinWords(s) == WinScan(s, 1, <<>>, <<>>, FALSE, FALSE)

\* characters cmd.exe acts on outside double quotes
CmdMeta == {"&", "|", "<", ">", "^"}

RECURSIVE WinMetaFrom(_, _, _)
\* s has, from position i on, a character cmd.exe acts on outside double quotes
WinMetaFrom(s, i, inq) ==
    IF i > Len(s) THEN FALSE
    ELSE IF s[i] = "\"" THEN WinMetaFrom(s, i + 1, ~inq)
    ELSE IF ~inq /\ s[i] \in CmdMeta THEN TRUE
    ELSE WinMetaFrom(s, i + 1, inq)

WinUnquotedMeta(s) == WinMetaFrom(s, 1, FALSE)

\* the message leaves nothing for the platform's shell to act on
FullyQuoted(msg) ==
    IF IsWindows THEN ~WinUnquotedMeta(msg) ELSE ~PosixUnquotedMeta(msg)

\* the words of a display string under the platform's quoting rules
WordsOf(msg) == IF IsWindows THEN WinWords(msg) ELSE PosixWords(msg)

\* token i of the argv list is written in quotes in the message
WrappedInQuotes(raw) ==
    /\ Len(raw) >= 2
    /\ Head(raw) = raw[Len(raw)]
    /\ Head(raw) = (IF IsWindows THEN "\"" ELSE "'")

SpaceTokensWrapped(msg, argv) ==
    LET ws == WordsOf(msg)
    IN  /\ Len(ws) = Len(argv)
        /\ \A i \in 1..Len(argv) :
               Contains(argv[i], " ") => WrappedInQuotes(ws[i].raw)

EnvOps == {"set_env_var", "append_to_env_var", "prepend_to_env_var", "import_env"}

\* C2: no environment operation on a runner changes the snapshot the runners
\* were built from or the mapping of another runner: each runner's mapping
\* is a dict of its own.
C2_EnvNeverAliased ==
    /\ [](\A r \in Runners :
              /\ envRef[r] # 0
              /\ \A o \in Runners \ {r} : envRef[o] # envRef[r])
    /\ [][result'.op \in EnvOps =>
              /\ heap'[0] = heap[0]
              /\ \A o \in Runners \ {result'.runner} :
                     heap'[envRef[o]] = heap[envRef[o]]]_vars

C2_Witness ==
    /\ result.op = "import_env"
    /\ result.status = "ok"
    /\ heap[0] = EmptyEnv
    /\ heap[envRef[1]] # heap[0]
    /\ heap[envRef[2]] # heap[0]
    /\ heap[envRef[1]] # heap[envRef[2]]

\* the line begins with identifier characters followed by "="
BeginsWithIdentifierEquals(line) ==
    \E k \in 1..(Len(line) - 1) :
        /\ \A j \in 1..k : line[j] \in WordChars
        /\ line[k + 1] = "="

FirstEquals(line) == CHOOSE i \in 1..Len(line) : line[i] = "=" /\ ~Contains(SubSeq(line, 1, i - 1), "=")

NameBeforeEquals(line) == SubSeq(line, 1, FirstEquals(line) - 1)

TextAfterEquals(line) == SubSeq(line, FirstEquals(line) + 1, Len(line))

\* s without the white space at its end
WithoutTrailingBlanks(s) ==
    LET keep == {i \in 1..Len(s) : s[i] \notin Whitespace}
    IN  IF keep = {} THEN <<>>
        ELSE SubSeq(s, 1, CHOOSE i \in keep : \A j \in keep : j <= i)

TextAfterEqualsTrimmed(line) == WithoutTrailingBlanks(TextAfterEquals(line))

\* the mapping after the assignment lines among lines were applied in order,
\* each setting its variable to Val(line)
Imported(env, lines, Val(_)) ==
    LET idx == {i \in 1..Len(lines) : BeginsWithIdentifierEquals(lines[i])}
        names == {NameBeforeEquals(lines[i]) : i \in idx}
        last(k) == CHOOSE i \in idx :
                       /\ NameBeforeEquals(lines[i]) = k
                       /\ \A j \in idx : NameBeforeEquals(lines[j]) = k => j <= i
    IN  [k \in (DOMAIN env) \cup names |->
            IF k \in names THEN Val(lines[last(k)]) ELSE env[k]]

\* the lines that are no assignments, in order
OtherLines(lines) == SelectSeq(lines, LAMBDA l : ~BeginsWithIdentifierEquals(l))

\* import_env on captured output: the mapping is the old one with the
\* assignment lines applied, the other lines are on the console after the
\* command line, and nothing is raised
ImportedAs(Val(_)) ==
    (result'.op = "import_env" /\ ~result'.none) =>
        LET ref == envRef[result'.runner]
            lines == SplitLines(result'.out)
        IN  /\ result'.status = "ok"
            /\ heap'[ref] = Imported(heap[ref], lines, Val)
            /\ console' = <<Plus \o result'.line>> \o OtherLines(lines)

\* C5 as stated: each assignment line sets its variable to the text after
\* the first "=", every other line goes to the console and sets nothing, and
\* import_env does not raise.
C5_ValueIsTextAfterEquals == [][ImportedAs(TextAfterEquals)]_vars

\* C5 amended: each assignment line sets its variable to the text after the
\* first "=" without the white space at the end of the line; every other
\* line goes to the console and sets nothing, and import_env does not raise.
C5_ValueIsTrimmedTextAfterEquals == [][ImportedAs(TextAfterEqualsTrimmed)]_vars

C5_Witness ==
    /\ result.op = "import_env"
    /\ result.out = OutExample
    /\ heap[envRef[1]][FOO] = <<"b","a","r">>
    /\ heap[envRef[1]][BAZ] = <<"q","u","x">>
    /\ PATH \in DOMAIN heap[envRef[1]]
    /\ console = <<Plus \o result.line, <<"n","o","t","a","l","i","n","e">>>>

\* C7: append_to_env_var sets the variable to the value when it is unset or
\* empty and to old + sep + value otherwise, sep being one space when not
\* given, and changes no other variable: "/x" appended to PATH "/a" gives
\* "/a /x".
C7_AppendSetsOrJoins ==
    [][result'.op = "append_to_env_var" =>
           LET old == heap[envRef[result'.runner]]
               new == heap'[envRef[result'.runner]]
               k == result'.path
               v == result'.value
               sep == IF result'.flag THEN result'.sep ELSE <<" ">>
           IN  /\ DOMAIN new = (DOMAIN old) \cup {k}
               /\ new[k] = IF k \notin DOMAIN old \/ old[k] = <<>> THEN v
                           ELSE old[k] \o sep \o v
               /\ \A o \in (DOMAIN old) \ {k} : new[o] = old[o]
               /\ (k = PATH /\ v = SlashX /\ ~result'.flag /\ k \in DOMAIN old
                       /\ old[k] = SlashA) => new[k] = <<"/","a"," ","/","x">>
               /\ (k = PATH /\ v = SlashX /\ k \notin DOMAIN old) => new[k] = SlashX]_vars

C7_Witness ==
    /\ result.op = "append_to_env_var"
    /\ result.path = PATH
    /\ ~result.flag
    /\ heap[envRef[1]][PATH] = <<"/","a"," ","/","x">>
    /\ FOO \in DOMAIN heap[envRef[1]]

\* C10: with the dry-run backend import_env changes no mapping and raises
\* nothing, whatever environment operations came before.
C10_DryRunImportChangesNothing ==
    [][(result'.op = "import_env" /\ executor = "DryRun") =>
           /\ heap' = heap
           /\ result'.status = "ok"
           /\ result'.none]_vars

C10_Witness ==
    /\ executor = "DryRun"
    /\ result.op = "import_env"
    /\ result.status = "ok"
    /\ heap[envRef[1]] # heap[0]
    /\ PATH \in DOMAIN heap[envRef[1]]
    /\ heap[envRef[1]][PATH] = SlashX \o Colon \o SlashA

(***************************************************************************)
(* Properties of the file operations.                                      *)
(***************************************************************************)
\* C6: with the dry-run backend the file system never changes and no process
\* is spawned; call returns 0, check_call and check_output do not fail, and
\* remove_path(p) writes a console line that contains p.
C6_DryRunTouchesNothing ==
    /\ [](executor = "DryRun" =>
              /\ ~spawned
              /\ result.op = "call" => (result.status = "ok" /\ result.code = 0)
              /\ result.op \in {"check_call", "check_output"} => result.status = "ok"
              /\ result.op = "remove_path" =>
                     \E i \in 1..Len(console) : HasSubstring(console[i], result.path))
    /\ [][executor = "DryRun" => fs' = fs]_vars

C6_Witness ==
    /\ executor = "DryRun"
    /\ result.op = "remove_path"
    /\ result.path = <<"/","d","/","e">>
    /\ console = <<DeleteColon \o <<"/","d","/","e">>>>
    /\ cwd = SlashD
    /\ fs = SampleTree

\* the nodes strictly above n, below the root
Ancestors(n) == {SubSeq(n, 1, k) : k \in 1..(Len(n) - 1)}

\* C9: with the real backend ensure_dir_exists(path, ensure_empty=True) ends
\* with an empty directory at path whatever was there (nothing, a file, an
\* empty or a non-empty directory); with ensure_empty=False it creates the
\* directory and its parents when path is absent and leaves an existing
\* directory and all below it as they were. (Nothing can be created below a
\* regular file: there the operation fails.)
C9_EnsureDirExists ==
    [][(executor = "Real" /\ result'.op = "ensure_dir_exists") =>
           LET n == NodeOf(EnsureAbsPath(result'.path, cwd))
               blocked == \E a \in Ancestors(n) : fs[a].kind = "file"
               done == result'.status = "ok"
           IN  IF result'.flag
               THEN /\ ~blocked => done
                    /\ done => /\ fs'[n].kind = "dir"
                               /\ \A m \in Nodes :
                                      (IsPrefix(n, m) /\ m # n) => fs'[m].kind = "absent"
                               /\ \A a \in Ancestors(n) : fs'[a].kind = "dir"
                               /\ \A m \in Nodes :
                                      (~IsPrefix(n, m) /\ m \notin Ancestors(n))
                                          => fs'[m] = fs[m]
               ELSE /\ (fs[n].kind = "absent" /\ ~blocked) =>
                           /\ done
                           /\ fs'[n].kind = "dir"
                           /\ \A a \in Ancestors(n) : fs'[a].kind = "dir"
                           /\ \A m \in Nodes :
                                  (m # n /\ m \notin Ancestors(n)) => fs'[m] = fs[m]
                    /\ fs[n].kind = "dir" => (done /\ fs' = fs)]_vars

C9_Witness ==
    /\ executor = "Real"
    /\ result.op = "ensure_dir_exists"
    /\ result.flag
    /\ result.status = "ok"
    /\ result.path = SlashD
    /\ fs[<<<<"d">>>>].kind = "dir"
    /\ fs[<<<<"d">>, <<"e">>>>].kind = "absent"
    /\ fs[<<<<"d">>, <<"d">>>>].kind = "absent"
    /\ fs[<<<<"e">>>>] = File(<<>>)

====
